---- MODULE Spec2Model ----
(***************************************************************************)
(* The Helldivers 2 ingestion pipeline of ingest_data.py: main() fetches   *)
(* six JSON resources and store_data() writes them to six PostgreSQL       *)
(* relations inside one psycopg2 transaction.                              *)
(*                                                                         *)
(* Python values are tagged records, so that None, numbers, strings, lists *)
(* and dicts can be stored in the same column and compared:                *)
(*   [t |-> "null"]                 None                                   *)
(*   [t |-> "bool", v |-> "True"]   True or False                          *)
(*   [t |-> "num", v |-> "80"]      a JSON number (its literal)            *)
(*   [t |-> "str", v |-> "abc"]     a str                                  *)
(*   [t |-> "list", elems |-> s]    a list                                 *)
(*   [t |-> "obj", f |-> g, keys |-> s]  a dict g with insertion order s   *)
(***************************************************************************)
EXTENDS Integers, Sequences, FiniteSets, TLC

VARIABLES
    pc,        \* position of main(): Idle, Fetching, Connect, Schema, Upsert, Finish, Blocked, Crashed
    upstream,  \* what each endpoint answers during the current run
    data,      \* the dict built by fetch_all_data
    i,         \* index of the resource / statement within the current phase
    k,         \* index of the item within the current resource
    db,        \* committed contents of the database (what any other session sees)
    tx,        \* contents as seen inside conn's open transaction
    log,       \* records written to pipeline.log by the current run
    outcome,   \* how store_data ended in the current run: None, Committed, RolledBack
    err,       \* the exception store_data caught in the current run, and where
    runs,      \* number of invocations of main() started so far
    dbStart,   \* committed contents when the current run started
    prev       \* the previous run: the data it fetched and whether the database failed it

vars == <<pc, upstream, data, i, k, db, tx, log, outcome, err, runs, dbStart, prev>>

\* Number of invocations of main() explored.
MaxRuns == 2

-----------------------------------------------------------------------------
(* Python values *)

None == [t |-> "null"]
Num(s) == [t |-> "num", v |-> s]
Str(s) == [t |-> "str", v |-> s]
Bool(s) == [t |-> "bool", v |-> s]
List(s) == [t |-> "list", elems |-> s]

RECURSIVE KeyOrder(_)
\* Some enumeration of a set of keys (used when the order is never read).
KeyOrder(S) == IF S = {} THEN <<>>
               ELSE LET x == CHOOSE y \in S : TRUE IN <<x>> \o KeyOrder(S \ {x})

\* A dict given as a TLA+ record.
Obj(g) == [t |-> "obj", f |-> g, keys |-> KeyOrder(DOMAIN g)]

\* A dict given in the order of its keys in the JSON text.
Dict(ks, g) == [t |-> "obj", f |-> g, keys |-> ks]

\* None as the default of .get('position'), .get('biome'), .get('setting').
NoDefault == [t |-> "null"]

\* {} and [], the defaults of the .get calls for nested objects and lists.
EmptyDict == [t |-> "obj", f |-> [x \in {} |-> None], keys |-> <<>>]
EmptyList == List(<<>>)

\* bool(v)
Truthy(v) ==
    CASE v.t = "null" -> FALSE
      [] v.t = "bool" -> v.v = "True"
      [] v.t = "num"  -> v.v # "0"
      [] v.t = "str"  -> v.v # ""
      [] v.t = "list" -> v.elems # <<>>
      [] v.t = "obj"  -> v.keys # <<>>

\* Whether v.get(...) is an attribute of v; otherwise the call raises AttributeError.
HasGet(v) == v.t = "obj"

\* d.get(key, default) for a dict d
GetOr(d, key, default) == IF key \in DOMAIN d.f THEN d.f[key] ELSE default

\* d.get(key)
Get(d, key) == GetOr(d, key, None)

\* Whether `for x in v` is possible; otherwise it raises TypeError.
Iterable(v) == v.t \in {"list", "obj", "str"}

\* The sequence `for x in v` runs through (a dict yields its keys).
Iter(v) ==
    CASE v.t = "list" -> v.elems
      [] v.t = "obj"  -> [n \in 1..Len(v.keys) |-> Str(v.keys[n])]
      [] OTHER        -> <<>>

\* list(d.items()) for a dict d
DictItems(d) == [n \in 1..Len(d.keys) |-> <<d.keys[n], d.f[d.keys[n]]>>]

\* int(s) for the str keys of the planets map: the canonical literal of the
\* integer, or "ValueError".
ParseInt(s) ==
    CASE s = "5"  -> "5"
      [] s = "05" -> "5"
      [] s = " 5" -> "5"
      [] s = "6"  -> "6"
      [] s = "06" -> "6"
      [] OTHER    -> "ValueError"

RECURSIVE JsonDumps(_)
RECURSIVE JoinDumps(_, _)
\* The text json.dumps(v) returns.
JsonDumps(v) ==
    CASE v.t = "null" -> "null"
      [] v.t = "bool" -> IF v.v = "True" THEN "true" ELSE "false"
      [] v.t = "num"  -> v.v
      [] v.t = "str"  -> "\"" \o v.v \o "\""
      [] v.t = "list" -> "[" \o JoinDumps(v.elems, <<>>) \o "]"
      [] v.t = "obj"  -> "{" \o JoinDumps([n \in 1..Len(v.keys) |-> v.f[v.keys[n]]], v.keys) \o "}"
\* The members of a list (names = <<>>) or of a dict, separated by ", ".
JoinDumps(s, names) ==
    IF s = <<>> THEN ""
    ELSE LET head == IF names = <<>> THEN JsonDumps(s[1])
                     ELSE "\"" \o names[1] \o "\": " \o JsonDumps(s[1])
             rest == IF names = <<>> THEN <<>> ELSE Tail(names)
         IN  IF Len(s) = 1 THEN head ELSE head \o ", " \o JoinDumps(Tail(s), rest)

-----------------------------------------------------------------------------
(* The endpoints and the schema *)

\* The keys of ENDPOINTS in their order, followed by 'planets': the order in
\* which fetch_all_data fetches and store_data writes.
ENDPOINTS == <<"status", "info", "news", "campaign", "major_orders">>
Resources == ENDPOINTS \o <<"planets">>

\* The relation each resource is written to.
TableOf(res) ==
    CASE res = "status"       -> "war_status"
      [] res = "info"         -> "war_info"
      [] res = "news"         -> "war_news"
      [] res = "campaign"     -> "war_campaign"
      [] res = "major_orders" -> "war_major_orders"
      [] res = "planets"      -> "planets"

\* Schema-ensure with the last CREATE TABLE statement left out.
TablesWithoutPlanets == <<"war_status", "war_info", "war_news", "war_campaign", "war_major_orders">>

\* The six CREATE TABLE IF NOT EXISTS statements, in their order.
Tables == <<"war_status", "war_info", "war_news", "war_campaign", "war_major_orders", "planets">>
Relations == {Tables[n] : n \in 1..Len(Tables)}

\* The PRIMARY KEY column of each relation.
PrimaryKey(rel) ==
    CASE rel = "war_news"         -> "id"
      [] rel = "war_major_orders" -> "id32"
      [] OTHER                    -> "planetIndex"

\* SET lists that assign only the first column after the key.
SetFirstColumnOnly(rel) ==
    CASE rel = "war_status"       -> {"owner"}
      [] rel = "war_info"         -> {"settingsHash"}
      [] rel = "war_news"         -> {}
      [] rel = "war_campaign"     -> {"name"}
      [] rel = "war_major_orders" -> {"progress"}
      [] rel = "planets"          -> {"name"}

\* The columns assigned from EXCLUDED by each ON CONFLICT ... DO UPDATE SET;
\* war_news has ON CONFLICT (id) DO NOTHING.
SetColumns(rel) ==
    CASE rel = "war_status" ->
            {"owner", "health", "regenPerSecond", "players", "warId", "time",
             "impactMultiplier", "storyBeatId32"}
      [] rel = "war_info" ->
            {"settingsHash", "position_x", "position_y", "waypoints", "sector",
             "maxHealth", "disabled", "initialOwner", "warId", "startDate",
             "endDate", "minimumClientVersion"}
      [] rel = "war_news" -> {}
      [] rel = "war_campaign" ->
            {"name", "faction", "players", "health", "maxHealth", "percentage",
             "defense", "majorOrder", "biome_slug", "biome_description",
             "expireDateTime"}
      [] rel = "war_major_orders" ->
            {"progress", "expiresIn", "setting_type", "setting_overrideTitle",
             "setting_overrideBrief", "setting_taskDescription", "setting_tasks",
             "setting_reward_type", "setting_reward_id32", "setting_reward_amount",
             "setting_flags"}
      [] rel = "planets" ->
            {"name", "sector", "biome_slug", "biome_description", "environmentals"}

\* The connection left in autocommit mode: every statement is its own transaction.
autocommit_on == TRUE

\* conn.autocommit = False: statements take effect for others only at commit.
autocommit == FALSE

\* A database without tables. The rows of a relation are kept as a sequence
\* (a heap), so that two rows with the same key are distinguishable.
EmptyDb == [tables |-> {}, rows |-> [rel \in Relations |-> <<>>]]

\* DROP TABLE IF EXISTS rel; CREATE TABLE rel (...)
DropAndCreate(d, rel) == [d EXCEPT !.tables = @ \cup {rel}, !.rows[rel] = <<>>]

\* CREATE TABLE IF NOT EXISTS rel (...)
CreateTableIfNotExists(d, rel) == [d EXCEPT !.tables = @ \cup {rel}]

\* A relation without the unique index: no row is ever found in conflict.
NoConflict(d, rel, row) == {}

\* What the unique index of the PRIMARY KEY finds for ON CONFLICT (key): the
\* positions of the rows of rel whose primary key equals that of row.
Conflicting(d, rel, row) ==
    {n \in DOMAIN d.rows[rel] : d.rows[rel][n][PrimaryKey(rel)] = row[PrimaryKey(rel)]}

\* The error PostgreSQL raises for INSERT INTO rel ... VALUES row, or "none".
InsertError(d, rel, row) ==
    IF rel \notin d.tables THEN "UndefinedTable"
    ELSE IF row[PrimaryKey(rel)].t = "null" THEN "IntegrityError"
    ELSE IF row[PrimaryKey(rel)].t # "num" THEN "DataError"
    ELSE "none"

\* A plain INSERT into a relation that has no key constraint.
PlainInsert(d, rel, row) == [d EXCEPT !.rows[rel] = Append(@, row)]

\* Upsert written as DELETE of the stored row followed by INSERT, for every
\* relation alike.
RECURSIVE Without(_, _, _)
Without(t, col, key) ==
    IF t = <<>> THEN <<>>
    ELSE IF t[1][col] = key THEN Without(Tail(t), col, key)
    ELSE <<t[1]>> \o Without(Tail(t), col, key)
DeleteThenInsert(d, rel, row) ==
    LET col == IF rel = "war_news" THEN "id"
               ELSE IF rel = "war_major_orders" THEN "id32" ELSE "planetIndex"
    IN  [d EXCEPT !.rows[rel] = Append(Without(@, col, row[col]), row)]

\* INSERT INTO rel ... VALUES row ON CONFLICT (key) DO NOTHING, for every
\* relation alike.
InsertOrDoNothing(d, rel, row) ==
    IF \E n \in DOMAIN d.rows[rel] : d.rows[rel][n][PrimaryKey(rel)] = row[PrimaryKey(rel)]
    THEN d
    ELSE [d EXCEPT !.rows[rel] = Append(@, row)]

\* INSERT INTO rel ... VALUES row ON CONFLICT (key) DO UPDATE SET c = EXCLUDED.c, ...
\* (DO NOTHING when SetColumns(rel) is empty).
InsertOnConflict(d, rel, row) ==
    LET old == Conflicting(d, rel, row)
        upd(r) == [c \in DOMAIN r |-> IF c \in SetColumns(rel) THEN row[c] ELSE r[c]]
    IN  IF old = {}
        THEN [d EXCEPT !.rows[rel] = Append(@, row)]
        ELSE [d EXCEPT !.rows[rel] = [n \in DOMAIN @ |-> IF n \in old THEN upd(@[n]) ELSE @[n]]]

\* conn.commit(): the transaction's contents become the committed contents.
Commit(committed, working) == working

\* An except clause that commits what the transaction has written so far.
RollbackCommits(committed, working) == working

\* conn.rollback(): the transaction's contents are discarded.
Rollback(committed, working) == committed

-----------------------------------------------------------------------------
(* store_data: the rows built from the fetched payloads *)

Raise(e) == [exc |-> e]
Items(s) == [exc |-> "none", items |-> s]
Params(row) == [exc |-> "none", row |-> row]

\* `'key' in data` alone, without the truth test of the payload.
KeyPresent(d, res) == res \in DOMAIN d

\* `'key' in data and data['key']`
Present(d, res) == res \in DOMAIN d /\ Truthy(d[res])

\* The sequence the `for` loop of each resource runs through, or the exception
\* raised before the loop's first iteration.
LoopItems(res, payload) ==
    CASE res = "status" ->
            IF ~HasGet(payload) THEN Raise("AttributeError")
            ELSE LET planet_status == GetOr(payload, "planetStatus", EmptyList)
                 IN  IF ~Iterable(planet_status) THEN Raise("TypeError")
                     ELSE Items(Iter(planet_status))
      [] res = "info" ->
            IF ~HasGet(payload) THEN Raise("AttributeError")
            ELSE LET planet_infos == GetOr(payload, "planetInfos", EmptyList)
                 IN  IF ~Iterable(planet_infos) THEN Raise("TypeError")
                     ELSE Items(Iter(planet_infos))
      [] res \in {"news", "campaign", "major_orders"} ->
            IF ~Iterable(payload) THEN Raise("TypeError") ELSE Items(Iter(payload))
      [] res = "planets" ->
            IF ~HasGet(payload) THEN Raise("AttributeError")
            ELSE Items(DictItems(payload))

\* The parameters of the war_status INSERT for one item of planetStatus.
StatusParams(payload, status) ==
    IF ~HasGet(status) THEN Raise("AttributeError")
    ELSE Params([planetIndex      |-> Get(status, "index"),
                 owner            |-> Get(status, "owner"),
                 health           |-> Get(status, "health"),
                 regenPerSecond   |-> Get(status, "regenPerSecond"),
                 players          |-> Get(status, "players"),
                 warId            |-> Get(payload, "warId"),
                 time             |-> Get(payload, "time"),
                 impactMultiplier |-> Get(payload, "impactMultiplier"),
                 storyBeatId32    |-> Get(payload, "storyBeatId32")])

\* The parameters of the war_info INSERT for one item of planetInfos.
InfoParams(payload, info) ==
    IF ~HasGet(info) THEN Raise("AttributeError")
    ELSE LET position  == GetOr(info, "position", EmptyDict)
             waypoints == GetOr(info, "waypoints", EmptyList)
         IN  IF ~HasGet(position) THEN Raise("AttributeError")
             ELSE Params([planetIndex          |-> Get(info, "index"),
                          settingsHash         |-> Get(info, "settingsHash"),
                          position_x           |-> Get(position, "x"),
                          position_y           |-> Get(position, "y"),
                          waypoints            |-> waypoints,
                          sector               |-> Get(info, "sector"),
                          maxHealth            |-> Get(info, "maxHealth"),
                          disabled             |-> Get(info, "disabled"),
                          initialOwner         |-> Get(info, "initialOwner"),
                          warId                |-> Get(payload, "warId"),
                          startDate            |-> Get(payload, "startDate"),
                          endDate              |-> Get(payload, "endDate"),
                          minimumClientVersion |-> Get(payload, "minimumClientVersion")])

\* The parameters of the war_news INSERT for one news item.
NewsParams(news) ==
    IF ~HasGet(news) THEN Raise("AttributeError")
    ELSE Params([id        |-> Get(news, "id"),
                 published |-> Get(news, "published"),
                 type      |-> Get(news, "type"),
                 tagIds    |-> Get(news, "tagIds"),
                 message   |-> Get(news, "message")])

\* The parameters of the war_campaign INSERT for one campaign.
CampaignParams(campaign) ==
    IF ~HasGet(campaign) THEN Raise("AttributeError")
    ELSE LET biome == GetOr(campaign, "biome", EmptyDict)
         IN  IF ~HasGet(biome) THEN Raise("AttributeError")
             ELSE Params([planetIndex       |-> Get(campaign, "planetIndex"),
                          name              |-> Get(campaign, "name"),
                          faction           |-> Get(campaign, "faction"),
                          players           |-> Get(campaign, "players"),
                          health            |-> Get(campaign, "health"),
                          maxHealth         |-> Get(campaign, "maxHealth"),
                          percentage        |-> Get(campaign, "percentage"),
                          defense           |-> Get(campaign, "defense"),
                          majorOrder        |-> Get(campaign, "majorOrder"),
                          biome_slug        |-> Get(biome, "slug"),
                          biome_description |-> Get(biome, "description"),
                          expireDateTime    |-> Get(campaign, "expireDateTime")])

\* The parameters of the war_major_orders INSERT for one order.
MajorOrderParams(order) ==
    IF ~HasGet(order) THEN Raise("AttributeError")
    ELSE LET setting == GetOr(order, "setting", EmptyDict)
         IN  IF ~HasGet(setting) THEN Raise("AttributeError")
             ELSE LET reward == GetOr(setting, "reward", EmptyDict)
                  IN  IF ~HasGet(reward) THEN Raise("AttributeError")
                      ELSE Params([id32                    |-> Get(order, "id32"),
                                   progress                |-> Get(order, "progress"),
                                   expiresIn               |-> Get(order, "expiresIn"),
                                   setting_type            |-> Get(setting, "type"),
                                   setting_overrideTitle   |-> Get(setting, "overrideTitle"),
                                   setting_overrideBrief   |-> Get(setting, "overrideBrief"),
                                   setting_taskDescription |-> Get(setting, "taskDescription"),
                                   setting_tasks           |-> Str(JsonDumps(Get(setting, "tasks"))),
                                   setting_reward_type     |-> Get(reward, "type"),
                                   setting_reward_id32     |-> Get(reward, "id32"),
                                   setting_reward_amount   |-> Get(reward, "amount"),
                                   setting_flags           |-> Get(setting, "flags")])

\* The parameters of the planets INSERT for one (planet_index, planet) pair.
PlanetParams(pair) ==
    LET planet_index == pair[1]
        planet       == pair[2]
    IN  IF ~HasGet(planet) THEN Raise("AttributeError")
        ELSE LET biome          == GetOr(planet, "biome", EmptyDict)
                 environmentals == GetOr(planet, "environmentals", EmptyList)
             IN  IF ParseInt(planet_index) = "ValueError" THEN Raise("ValueError")
                 ELSE IF ~HasGet(biome) THEN Raise("AttributeError")
                 ELSE Params([planetIndex       |-> Num(ParseInt(planet_index)),
                              name              |-> Get(planet, "name"),
                              sector            |-> Get(planet, "sector"),
                              biome_slug        |-> Get(biome, "slug"),
                              biome_description |-> Get(biome, "description"),
                              environmentals    |-> Str(JsonDumps(environmentals))])

\* The parameters built in one iteration of the loop of resource res.
RowParams(res, payload, item) ==
    CASE res = "status"       -> StatusParams(payload, item)
      [] res = "info"         -> InfoParams(payload, item)
      [] res = "news"         -> NewsParams(item)
      [] res = "campaign"     -> CampaignParams(item)
      [] res = "major_orders" -> MajorOrderParams(item)
      [] res = "planets"      -> PlanetParams(item)

-----------------------------------------------------------------------------
(* What the upstream API can answer *)

\* The feed at a first moment: planets 5 and 6, news 42, major order 7.
Feed1 ==
    [status |-> Obj([planetStatus |-> List(<<
                        Obj([index |-> Num("5"), owner |-> Num("1"), health |-> Num("100"),
                             regenPerSecond |-> Num("1.5"), players |-> Num("10")]),
                        Obj([index |-> Num("6"), owner |-> Num("2"), health |-> Num("9000"),
                             regenPerSecond |-> Num("2.5"), players |-> Num("20")])>>),
                     warId |-> Num("801"), time |-> Num("100"),
                     impactMultiplier |-> Num("0.02"), storyBeatId32 |-> Num("0")]),
     info |-> Obj([planetInfos |-> List(<<
                        Obj([index |-> Num("5"), settingsHash |-> Num("77"),
                             position |-> Obj([x |-> Num("0.1"), y |-> Num("0.2")]),
                             waypoints |-> List(<<Num("6")>>), sector |-> Num("0"),
                             maxHealth |-> Num("1000"), disabled |-> Bool("False"),
                             initialOwner |-> Num("1")])>>),
                   warId |-> Num("801"), startDate |-> Num("1"), endDate |-> Num("9"),
                   minimumClientVersion |-> Str("0.3.0")]),
     news |-> List(<<Obj([id |-> Num("42"), published |-> Num("10"), type |-> Num("0"),
                          tagIds |-> List(<<>>), message |-> Str("m1")])>>),
     campaign |-> List(<<Obj([planetIndex |-> Num("5"), name |-> Str("Hellmire"),
                              faction |-> Str("Terminids"), players |-> Num("10"),
                              health |-> Num("100"), maxHealth |-> Num("1000"),
                              percentage |-> Num("90.0"), defense |-> Bool("False"),
                              majorOrder |-> Bool("False"),
                              biome |-> Obj([slug |-> Str("desert"), description |-> Str("dry")]),
                              expireDateTime |-> None])>>),
     major_orders |-> List(<<Obj([id32 |-> Num("7"), progress |-> List(<<Num("0")>>),
                                  expiresIn |-> Num("500"),
                                  setting |-> Obj([type |-> Num("4"),
                                      overrideTitle |-> Str("MAJOR ORDER"),
                                      overrideBrief |-> Str("brief"),
                                      taskDescription |-> Str("hold"),
                                      tasks |-> List(<<Obj([type |-> Num("11")])>>),
                                      reward |-> Obj([type |-> Num("1"), id32 |-> Num("9"),
                                                      amount |-> Num("45")]),
                                      flags |-> Num("1")])])>>),
     planets |-> Dict(<<"5", "6">>,
                      [key \in {"5", "6"} |->
                          IF key = "5"
                          THEN Obj([name |-> Str("Hellmire"), sector |-> Str("Mirin"),
                                    biome |-> Obj([slug |-> Str("desert"),
                                                   description |-> Str("dry")]),
                                    environmentals |-> List(<<Obj([name |-> Str("Heat")])>>)])
                          ELSE Obj([name |-> Str("Oshaune"), sector |-> Str("Mirin"),
                                    biome |-> Obj([slug |-> Str("swamp"),
                                                   description |-> Str("wet")]),
                                    environmentals |-> List(<<>>)])])]

\* The feed at a later moment: planet 5 has lost health, planet 6 has left the
\* status list, news 42 has been edited and news 43 added, the campaign has
\* moved to planets 5 and 6, order 7 has progressed, planet 5 is renamed.
Feed2 ==
    [status |-> Obj([planetStatus |-> List(<<
                        Obj([index |-> Num("5"), owner |-> Num("2"), health |-> Num("80"),
                             regenPerSecond |-> Num("1.0"), players |-> Num("30")])>>),
                     warId |-> Num("802"), time |-> Num("200"),
                     impactMultiplier |-> Num("0.04"), storyBeatId32 |-> Num("3")]),
     info |-> Obj([planetInfos |-> List(<<
                        Obj([index |-> Num("5"), settingsHash |-> Num("78"),
                             position |-> Obj([x |-> Num("0.3"), y |-> Num("0.4")]),
                             waypoints |-> List(<<>>), sector |-> Num("1"),
                             maxHealth |-> Num("2000"), disabled |-> Bool("True"),
                             initialOwner |-> Num("2")])>>),
                   warId |-> Num("802"), startDate |-> Num("2"), endDate |-> Num("8"),
                   minimumClientVersion |-> Str("0.4.0")]),
     news |-> List(<<Obj([id |-> Num("42"), published |-> Num("11"), type |-> Num("1"),
                          tagIds |-> List(<<Num("3")>>), message |-> Str("m2")]),
                     Obj([id |-> Num("43"), published |-> Num("12"), type |-> Num("0"),
                          tagIds |-> List(<<>>), message |-> Str("m3")])>>),
     campaign |-> List(<<Obj([planetIndex |-> Num("5"), name |-> Str("Hellmire II"),
                              faction |-> Str("Automatons"), players |-> Num("30"),
                              health |-> Num("80"), maxHealth |-> Num("2000"),
                              percentage |-> Num("96.0"), defense |-> Bool("True"),
                              majorOrder |-> Bool("True"),
                              biome |-> Obj([slug |-> Str("moon"), description |-> Str("grey")]),
                              expireDateTime |-> Str("2024-05-01T00:00:00Z")])>>),
     major_orders |-> List(<<Obj([id32 |-> Num("7"), progress |-> List(<<Num("1")>>),
                                  expiresIn |-> Num("400"),
                                  setting |-> Obj([type |-> Num("5"),
                                      overrideTitle |-> Str("ORDER"),
                                      overrideBrief |-> Str("brief 2"),
                                      taskDescription |-> Str("liberate"),
                                      tasks |-> List(<<Obj([type |-> Num("12")])>>),
                                      reward |-> Obj([type |-> Num("2"), id32 |-> Num("8"),
                                                      amount |-> Num("50")]),
                                      flags |-> Num("2")])])>>),
     planets |-> Dict(<<"5">>,
                      [key \in {"5"} |->
                          Obj([name |-> Str("Hellmire II"), sector |-> Str("Lacaille"),
                               biome |-> Obj([slug |-> Str("moon"), description |-> Str("grey")]),
                               environmentals |-> List(<<Obj([name |-> Str("Cold")])>>)])])]

Feeds == {Feed1, Feed2}

\* A major_orders payload whose only order carries no id32: its INSERT violates
\* the NOT NULL of the primary key.
OrderWithoutId ==
    List(<<Obj([progress |-> List(<<Num("0")>>), expiresIn |-> Num("500")])>>)

\* The answers of the six endpoints while the feed is `feed`.
Answers(feed) == [res \in DOMAIN feed |-> [kind |-> "ok", body |-> feed[res]]]

\* A 2xx answer with a JSON body; a non-2xx status or a transport error; an
\* endpoint that accepts the request and never sends a response.
HttpError == [kind |-> "error"]
Silent    == [kind |-> "silent"]

\* A planets payload whose second key is no integer literal: int(planet_index)
\* raises ValueError after the row of planet 5 has been written.
PlanetsWithBadKey ==
    Dict(<<"5", "terra">>, [key \in {"5", "terra"} |-> Feed2.planets.f["5"]])

\* A status payload whose planetStatus is null: the `for` raises TypeError.
StatusWithNullList ==
    Obj([planetStatus |-> None, warId |-> Num("802"), time |-> Num("200")])

\* The payloads of unexpected shape, by resource.
Malformed ==
    [major_orders |-> OrderWithoutId,
     planets      |-> PlanetsWithBadKey,
     status       |-> StatusWithNullList]

\* The states of the upstream API a run can meet: a feed answered in full, or
\* with one endpoint failing; the first feed with one endpoint silent; the
\* second feed with one payload of unexpected shape.
Upstreams ==
    {Answers(feed) : feed \in Feeds}
    \cup {[Answers(feed) EXCEPT ![res] = HttpError] :
              feed \in Feeds, res \in DOMAIN Feed1}
    \cup {[Answers(Feed1) EXCEPT ![res] = Silent] : res \in DOMAIN Feed1}
    \cup {[Answers(Feed2) EXCEPT ![res] = [kind |-> "ok", body |-> Malformed[res]]] :
              res \in DOMAIN Malformed}

\* A dict like obj with the value of one key replaced (or the key added last).
WithKey(obj, key, value) ==
    Dict(IF key \in DOMAIN obj.f THEN obj.keys ELSE Append(obj.keys, key),
         [x \in DOMAIN obj.f \cup {key} |-> IF x = key THEN value ELSE obj.f[x]])

\* A dict like obj without the keys of ks.
WithoutKeys(obj, ks) ==
    Dict(SelectSeq(obj.keys, LAMBDA x : x \notin ks),
         [x \in DOMAIN obj.f \ ks |-> obj.f[x]])

\* The items of the second feed the payloads below are variations of.
Info5     == Feed2.info.f.planetInfos.elems[1]
Campaign5 == Feed2.campaign.elems[1]
Order7    == Feed2.major_orders.elems[1]
Planet5   == Feed2.planets.f["5"]
Status5   == Feed2.status.f.planetStatus.elems[1]

\* A feed whose items lack their nested objects and their optional lists: the
\* planet info has no position and no waypoints, the campaign no biome, order
\* 7 no setting, order 8 a setting without reward and tasks, the planet no
\* biome and no environmentals.
SparseFeed ==
    [Feed2 EXCEPT
        !.info = WithKey(@, "planetInfos",
                     List(<<WithoutKeys(Info5, {"position", "waypoints"})>>)),
        !.campaign = List(<<WithoutKeys(Campaign5, {"biome"})>>),
        !.major_orders =
            List(<<WithoutKeys(Order7, {"setting"}),
                   WithKey(WithKey(Order7, "id32", Num("8")), "setting",
                           WithoutKeys(Order7.f.setting, {"reward", "tasks"}))>>),
        !.planets = Dict(<<"5">>, [key \in {"5"} |->
                         WithoutKeys(Planet5, {"biome", "environmentals"})])]

\* Payloads in which a nested object is present with the value null.
NullPosition ==
    WithKey(Feed2.info, "planetInfos", List(<<WithKey(Info5, "position", None)>>))
NullCampaignBiome == List(<<WithKey(Campaign5, "biome", None)>>)
NullSetting == List(<<WithKey(Order7, "setting", None)>>)
NullReward ==
    List(<<WithKey(Order7, "setting", WithKey(Order7.f.setting, "reward", None))>>)
NullPlanetBiome == Dict(<<"5">>, [key \in {"5"} |-> WithKey(Planet5, "biome", None)])

\* The second feed with one nested object null.
NullSubObjectFeeds ==
    {[Feed2 EXCEPT !.info = NullPosition],
     [Feed2 EXCEPT !.campaign = NullCampaignBiome],
     [Feed2 EXCEPT !.major_orders = NullSetting],
     [Feed2 EXCEPT !.major_orders = NullReward],
     [Feed2 EXCEPT !.planets = NullPlanetBiome]}

\* A status payload whose second of three planetStatus items has no index.
StatusWithMissingIndex ==
    WithKey(Feed2.status, "planetStatus",
            List(<<Status5,
                   WithoutKeys(WithKey(Status5, "health", Num("50")), {"index"}),
                   WithKey(WithKey(Status5, "index", Num("6")), "health", Num("60"))>>))

\* A feed in which every payload carries one primary key twice (the planets
\* map by the keys "5" and "05", which int() both turns into 5); the news
\* payload repeats id 42, which the feeds serve, and id 44, which they do not.
DuplicateFeed ==
    [status |-> WithKey(Feed2.status, "planetStatus",
                    List(<<Status5, WithKey(Status5, "health", Num("70"))>>)),
     info |-> WithKey(Feed2.info, "planetInfos",
                  List(<<Info5, WithKey(Info5, "settingsHash", Num("79"))>>)),
     news |-> List(<<Feed2.news.elems[1],
                     WithKey(Feed2.news.elems[1], "message", Str("m2b")),
                     WithKey(WithKey(Feed2.news.elems[2], "id", Num("44")), "message", Str("m4")),
                     WithKey(WithKey(Feed2.news.elems[2], "id", Num("44")), "message", Str("m4b"))>>),
     campaign |-> List(<<Campaign5, WithKey(Campaign5, "name", Str("Hellmire III"))>>),
     major_orders |-> List(<<Order7, WithKey(Order7, "expiresIn", Num("300"))>>),
     planets |-> Dict(<<"5", "05">>,
                      [key \in {"5", "05"} |->
                          IF key = "5" THEN Planet5
                          ELSE WithKey(Planet5, "name", Str("Hellmire III"))])]

\* The states of the upstream API with payloads of these shapes, next to the
\* two feeds, one failing endpoint, one silent endpoint and one null list.
ShapeUpstreams ==
    {Answers(feed) : feed \in Feeds \cup {SparseFeed, DuplicateFeed} \cup NullSubObjectFeeds}
    \cup {Answers([Feed2 EXCEPT !.status = StatusWithMissingIndex]),
          Answers([Feed2 EXCEPT !.status = StatusWithNullList]),
          [Answers(Feed2) EXCEPT !["news"] = HttpError],
          [Answers(Feed1) EXCEPT !["campaign"] = Silent]}

-----------------------------------------------------------------------------
(* main(), fetch_all_data(), fetch_json() and store_data() *)

NoError == [kind |-> "none", at |-> "none"]
NoData  == [res \in {} |-> None]
NoPrev  == [ran |-> FALSE, data |-> NoData, fault |-> FALSE]

Init ==
    /\ pc = "Idle"
    /\ upstream = Answers(Feed1)
    /\ data = NoData
    /\ i = 1
    /\ k = 1
    /\ db = EmptyDb
    /\ tx = EmptyDb
    /\ log = <<>>
    /\ outcome = "None"
    /\ err = NoError
    /\ runs = 0
    /\ dbStart = EmptyDb
    /\ prev = NoPrev

\* The process is invoked: main() logs 'Pipeline started.' and calls
\* fetch_all_data. The previous invocation has returned or died.
StartRunFrom(universe) ==
    /\ pc \in {"Idle", "Done", "Crashed"}
    /\ runs < MaxRuns
    /\ \E u \in universe : upstream' = u
    /\ prev' = IF pc = "Idle" THEN NoPrev
               ELSE [ran |-> TRUE, data |-> data,
                     fault |-> err.kind = "OperationalError"]
    /\ pc' = "Fetching"
    /\ data' = NoData
    /\ i' = 1
    /\ k' = 1
    /\ log' = <<"Pipeline started.">>
    /\ outcome' = "None"
    /\ err' = NoError
    /\ runs' = runs + 1
    /\ dbStart' = db
    /\ tx' = db
    /\ UNCHANGED db

\* A run against the upstream states of Upstreams.
StartRun == StartRunFrom(Upstreams)

\* The URL fetch_json is called with for a resource (named by its key).
Url(res) == res

\* A fetch failure that ends fetch_all_data: the resources after the failed
\* one are not fetched.
FetchedShortCircuit(res, value, line) ==
    /\ data' = [r \in DOMAIN data \cup {res} |-> IF r = res THEN value ELSE data[r]]
    /\ log' = Append(log, line)
    /\ IF i < Len(Resources) /\ value # None
       THEN /\ i' = i + 1
            /\ pc' = "Fetching"
       ELSE /\ i' = 1
            /\ pc' = "Connect"
    /\ UNCHANGED <<upstream, k, db, tx, outcome, err, runs, dbStart, prev>>

\* data[key] = value, then the next fetch or, after 'planets', store_data.
Fetched(res, value, line) ==
    /\ data' = [r \in DOMAIN data \cup {res} |-> IF r = res THEN value ELSE data[r]]
    /\ log' = Append(log, line)
    /\ IF i < Len(Resources)
       THEN /\ i' = i + 1
            /\ pc' = "Fetching"
       ELSE /\ i' = 1
            /\ pc' = "Connect"
    /\ UNCHANGED <<upstream, k, db, tx, outcome, err, runs, dbStart, prev>>

\* fetch_json: requests.get returns a 2xx response; its JSON is returned.
FetchOk ==
    /\ pc = "Fetching"
    /\ upstream[Resources[i]].kind = "ok"
    /\ Fetched(Resources[i], upstream[Resources[i]].body,
               "Successfully fetched data from " \o Url(Resources[i]))

\* fetch_json: a RequestException is caught, logged, and None is returned.
FetchError ==
    /\ pc = "Fetching"
    /\ upstream[Resources[i]].kind = "error"
    /\ Fetched(Resources[i], None, "Error fetching data from " \o Url(Resources[i]))

\* fetch_json: requests.get(url, params=params) has no timeout argument, so it
\* waits for as long as the endpoint stays silent.
FetchBlocks ==
    /\ pc = "Fetching"
    /\ upstream[Resources[i]].kind = "silent"
    /\ pc' = "Blocked"
    /\ UNCHANGED <<upstream, data, i, k, db, tx, log, outcome, err, runs, dbStart, prev>>

\* psycopg2.connect succeeds; conn.cursor(); conn.autocommit = False.
Connect ==
    /\ pc = "Connect"
    /\ pc' = "Schema"
    /\ i' = 1
    /\ tx' = db
    /\ UNCHANGED <<upstream, data, k, db, log, outcome, err, runs, dbStart, prev>>

\* psycopg2.connect raises: the except clause calls conn.rollback() with conn
\* unbound, and the UnboundLocalError leaves store_data and main().
ConnectFails ==
    /\ pc = "Connect"
    /\ pc' = "Crashed"
    /\ err' = [kind |-> "OperationalError", at |-> "connect"]
    /\ UNCHANGED <<upstream, data, i, k, db, tx, log, outcome, runs, dbStart, prev>>

\* The effect of a statement on what other sessions see.
Visible(committed, working) == IF autocommit THEN working ELSE committed

\* The except clause: conn.rollback(), then logging.error.
Except(kind, at) ==
    /\ db' = Rollback(db, tx)
    /\ tx' = db'
    /\ log' = Append(log, "Error storing data")
    /\ outcome' = "RolledBack"
    /\ err' = [kind |-> kind, at |-> at]
    /\ pc' = "Finish"
    /\ UNCHANGED <<upstream, data, i, k, runs, dbStart, prev>>

\* One CREATE TABLE IF NOT EXISTS statement.
CreateTable ==
    /\ pc = "Schema"
    /\ tx' = CreateTableIfNotExists(tx, Tables[i])
    /\ db' = Visible(db, tx')
    /\ IF i < Len(Tables)
       THEN /\ i' = i + 1
            /\ pc' = "Schema"
       ELSE /\ i' = 1
            /\ pc' = "Upsert"
    /\ k' = 1
    /\ UNCHANGED <<upstream, data, log, outcome, err, runs, dbStart, prev>>

\* A CREATE TABLE statement raises (the server or the connection fails).
CreateTableFails ==
    /\ pc = "Schema"
    /\ Except("OperationalError", Tables[i])

\* Whether store_data is at the `if` of resource number i.
AtResource == pc = "Upsert" /\ i <= Len(Resources)

\* `if 'key' in data and data['key']` is false: the block is skipped.
SkipResource ==
    /\ AtResource
    /\ ~Present(data, Resources[i])
    /\ i' = i + 1
    /\ k' = 1
    /\ UNCHANGED <<pc, upstream, data, db, tx, log, outcome, err, runs, dbStart, prev>>

\* The lines before the loop of a resource raise.
EnvelopeRaises ==
    /\ AtResource
    /\ Present(data, Resources[i])
    /\ LoopItems(Resources[i], data[Resources[i]]).exc # "none"
    /\ Except(LoopItems(Resources[i], data[Resources[i]]).exc, Resources[i])

\* Whether store_data is at iteration k of the loop of resource number i.
AtItem ==
    /\ AtResource
    /\ Present(data, Resources[i])
    /\ LoopItems(Resources[i], data[Resources[i]]).exc = "none"
    /\ k <= Len(LoopItems(Resources[i], data[Resources[i]]).items)

\* The parameters of iteration k of the loop of resource number i.
CurrentParams ==
    RowParams(Resources[i], data[Resources[i]],
              LoopItems(Resources[i], data[Resources[i]]).items[k])

\* One iteration of a loop: the parameters are built and the INSERT ... ON
\* CONFLICT statement is executed.
UpsertRow ==
    /\ AtItem
    /\ CurrentParams.exc = "none"
    /\ InsertError(tx, TableOf(Resources[i]), CurrentParams.row) = "none"
    /\ tx' = InsertOnConflict(tx, TableOf(Resources[i]), CurrentParams.row)
    /\ db' = Visible(db, tx')
    /\ k' = k + 1
    /\ UNCHANGED <<pc, upstream, data, i, log, outcome, err, runs, dbStart, prev>>

\* Building the parameters of an iteration raises.
ParamsRaise ==
    /\ AtItem
    /\ CurrentParams.exc # "none"
    /\ Except(CurrentParams.exc, Resources[i])

\* PostgreSQL rejects the row of an iteration.
InsertRejected ==
    /\ AtItem
    /\ CurrentParams.exc = "none"
    /\ InsertError(tx, TableOf(Resources[i]), CurrentParams.row) # "none"
    /\ Except(InsertError(tx, TableOf(Resources[i]), CurrentParams.row), Resources[i])

\* An INSERT statement raises (the server or the connection fails).
InsertFails ==
    /\ AtItem
    /\ CurrentParams.exc = "none"
    /\ Except("OperationalError", Resources[i])

\* The loop of a resource ends: logging.info('Stored ... data successfully.').
EndLoop ==
    /\ AtResource
    /\ Present(data, Resources[i])
    /\ LoopItems(Resources[i], data[Resources[i]]).exc = "none"
    /\ k > Len(LoopItems(Resources[i], data[Resources[i]]).items)
    /\ log' = Append(log, "Stored data successfully")
    /\ i' = i + 1
    /\ k' = 1
    /\ UNCHANGED <<pc, upstream, data, db, tx, outcome, err, runs, dbStart, prev>>

\* conn.commit(), logging.info('All data stored successfully.'), close.
CommitRun ==
    /\ pc = "Upsert"
    /\ i > Len(Resources)
    /\ db' = Commit(db, tx)
    /\ tx' = db'
    /\ log' = Append(log, "All data stored successfully.")
    /\ outcome' = "Committed"
    /\ pc' = "Finish"
    /\ UNCHANGED <<upstream, data, i, k, err, runs, dbStart, prev>>

\* conn.commit() raises.
CommitFails ==
    /\ pc = "Upsert"
    /\ i > Len(Resources)
    /\ Except("OperationalError", "commit")

\* store_data has returned: main() logs 'Pipeline finished successfully.'
Finish ==
    /\ pc = "Finish"
    /\ log' = Append(log, "Pipeline finished successfully.")
    /\ pc' = "Done"
    /\ UNCHANGED <<upstream, data, i, k, db, tx, outcome, err, runs, dbStart, prev>>

Next ==
    \/ StartRun
    \/ FetchOk
    \/ FetchError
    \/ FetchBlocks
    \/ Connect
    \/ ConnectFails
    \/ CreateTable
    \/ CreateTableFails
    \/ SkipResource
    \/ EnvelopeRaises
    \/ UpsertRow
    \/ ParamsRaise
    \/ InsertRejected
    \/ InsertFails
    \/ EndLoop
    \/ CommitRun
    \/ CommitFails
    \/ Finish

Spec == Init /\ [][Next]_vars

FairSpec == Init /\ [][Next]_vars /\ WF_vars(Next)

\* A run against the upstream states of ShapeUpstreams.
StartShapeRun == StartRunFrom(ShapeUpstreams)

NextShapes ==
    \/ StartShapeRun
    \/ FetchOk
    \/ FetchError
    \/ FetchBlocks
    \/ Connect
    \/ ConnectFails
    \/ CreateTable
    \/ CreateTableFails
    \/ SkipResource
    \/ EnvelopeRaises
    \/ UpsertRow
    \/ ParamsRaise
    \/ InsertRejected
    \/ InsertFails
    \/ EndLoop
    \/ CommitRun
    \/ CommitFails
    \/ Finish

\* The pipeline fed with payloads of sparse, null-carrying and repeating shape.
ShapeSpec == Init /\ [][NextShapes]_vars

-----------------------------------------------------------------------------
(* Two invocations of main() that overlap in time *)

\* The two processes; each has its own connection, hence its own session and
\* transaction. In OverlapSpec the variables pc, data, i, k, tx, outcome, err
\* and dbStart hold one value per process, tx[s] being the rows session s has
\* written and not yet committed, and log holds the lines of both processes.
Sessions == {1, 2}

\* The first feed with the two planetStatus items in the opposite order.
Feed1Reversed ==
    [Feed1 EXCEPT !.status =
        WithKey(WithKey(@, "planetStatus",
                        List(<<Feed1.status.f.planetStatus.elems[2],
                               Feed1.status.f.planetStatus.elems[1]>>)),
                "warId", Num("803"))]

\* What the two processes can have fetched.
OverlapFeeds == {Feed1, Feed2, Feed1Reversed}

\* A database in which an earlier run has committed the six tables.
SchemaOnly == [tables |-> Relations, rows |-> [rel \in Relations |-> <<>>]]

\* Both processes have returned from fetch_all_data and are about to call
\* store_data.
OverlapInit ==
    /\ pc = [s \in Sessions |-> "Connect"]
    /\ data \in [Sessions -> OverlapFeeds]
    /\ i = [s \in Sessions |-> 1]
    /\ k = [s \in Sessions |-> 1]
    /\ db = SchemaOnly
    /\ tx = [s \in Sessions |-> <<>>]
    /\ log = <<>>
    /\ outcome = [s \in Sessions |-> "None"]
    /\ err = [s \in Sessions |-> NoError]
    /\ dbStart = [s \in Sessions |-> SchemaOnly]
    /\ upstream = Answers(Feed1)
    /\ runs = 0
    /\ prev = NoPrev

\* The database as the statements of session s see it under READ COMMITTED
\* (no isolation level is set): the committed contents with the session's own
\* uncommitted writes applied.
RECURSIVE ApplyWrites(_, _)
ApplyWrites(d, writes) ==
    IF writes = <<>> THEN d
    ELSE ApplyWrites(InsertOnConflict(d, writes[1].rel, writes[1].row), Tail(writes))
Working(s) == ApplyWrites(db, tx[s])

\* Whether another session holds the lock of the row of rel with this key: it
\* has inserted or updated the row in a transaction that is still open.
LockedByOther(s, rel, key) ==
    \E o \in Sessions \ {s} : \E n \in DOMAIN tx[o] :
        tx[o][n].rel = rel /\ tx[o][n].row[PrimaryKey(rel)] = key

\* psycopg2.connect; conn.cursor(); conn.autocommit = False.
SessionConnect(s) ==
    /\ pc[s] = "Connect"
    /\ pc' = [pc EXCEPT ![s] = "Schema"]
    /\ i' = [i EXCEPT ![s] = 1]
    /\ dbStart' = [dbStart EXCEPT ![s] = db]
    /\ UNCHANGED <<upstream, data, k, db, tx, log, outcome, err, runs, prev>>

\* One CREATE TABLE IF NOT EXISTS statement; the table exists.
SessionCreateTable(s) ==
    /\ pc[s] = "Schema"
    /\ CreateTableIfNotExists(db, Tables[i[s]]) = db
    /\ IF i[s] < Len(Tables)
       THEN /\ i' = [i EXCEPT ![s] = @ + 1]
            /\ pc' = pc
       ELSE /\ i' = [i EXCEPT ![s] = 1]
            /\ pc' = [pc EXCEPT ![s] = "Upsert"]
    /\ UNCHANGED <<upstream, data, k, db, tx, log, outcome, err, runs, dbStart, prev>>

\* Whether session s is at iteration k of the loop of resource number i, and
\* the relation and the parameters of that iteration's INSERT.
SessionAtItem(s) ==
    /\ pc[s] = "Upsert"
    /\ i[s] <= Len(Resources)
    /\ k[s] <= Len(LoopItems(Resources[i[s]], data[s][Resources[i[s]]]).items)
SessionTable(s) == TableOf(Resources[i[s]])
SessionParams(s) ==
    RowParams(Resources[i[s]], data[s][Resources[i[s]]],
              LoopItems(Resources[i[s]], data[s][Resources[i[s]]]).items[k[s]])

\* Whether the INSERT of session s has to wait for the other session to end
\* its transaction.
Waits(s) ==
    /\ SessionAtItem(s)
    /\ LockedByOther(s, SessionTable(s), SessionParams(s).row[PrimaryKey(SessionTable(s))])

\* One iteration of a loop: INSERT ... ON CONFLICT once no other session
\* holds the row. ON CONFLICT DO NOTHING writes nothing when the row exists.
SessionUpsertRow(s) ==
    /\ SessionAtItem(s)
    /\ ~Waits(s)
    /\ LET rel == SessionTable(s)
           row == SessionParams(s).row
           after == InsertOnConflict(Working(s), rel, row)
       IN  /\ db' = Visible(db, after)
           /\ tx' = IF autocommit \/ (after = Working(s) /\ SetColumns(rel) = {})
                    THEN tx
                    ELSE [tx EXCEPT ![s] = Append(@, [rel |-> rel, row |-> row])]
    /\ k' = [k EXCEPT ![s] = @ + 1]
    /\ UNCHANGED <<pc, upstream, data, i, log, outcome, err, runs, dbStart, prev>>

\* The loop of a resource ends.
SessionEndLoop(s) ==
    /\ pc[s] = "Upsert"
    /\ i[s] <= Len(Resources)
    /\ k[s] > Len(LoopItems(Resources[i[s]], data[s][Resources[i[s]]]).items)
    /\ i' = [i EXCEPT ![s] = @ + 1]
    /\ k' = [k EXCEPT ![s] = 1]
    /\ UNCHANGED <<pc, upstream, data, db, tx, log, outcome, err, runs, dbStart, prev>>

\* conn.commit(), logging.info('All data stored successfully.').
SessionCommit(s) ==
    /\ pc[s] = "Upsert"
    /\ i[s] > Len(Resources)
    /\ db' = Commit(db, Working(s))
    /\ tx' = [tx EXCEPT ![s] = <<>>]
    /\ log' = Append(log, [proc |-> s, line |-> "All data stored successfully."])
    /\ outcome' = [outcome EXCEPT ![s] = "Committed"]
    /\ pc' = [pc EXCEPT ![s] = "Done"]
    /\ UNCHANGED <<upstream, data, i, k, err, runs, dbStart, prev>>

\* The except clause of session s: conn.rollback(), then logging.error.
SessionExcept(s, kind) ==
    /\ db' = Rollback(db, Working(s))
    /\ tx' = [tx EXCEPT ![s] = <<>>]
    /\ log' = Append(log, [proc |-> s, line |-> "Error storing data"])
    /\ outcome' = [outcome EXCEPT ![s] = "RolledBack"]
    /\ err' = [err EXCEPT ![s] = [kind |-> kind, at |-> "store_data"]]
    /\ pc' = [pc EXCEPT ![s] = "Done"]
    /\ UNCHANGED <<upstream, data, i, k, runs, dbStart, prev>>

\* A statement or the commit of session s raises (the server or the
\* connection fails).
SessionFails(s) ==
    /\ pc[s] = "Upsert"
    /\ SessionExcept(s, "OperationalError")

\* Each session waits for a row the other holds: PostgreSQL ends the wait of
\* one of them with a deadlock error.
SessionDeadlock(s) ==
    /\ \A o \in Sessions : Waits(o)
    /\ SessionExcept(s, "DeadlockDetected")

NextOverlap ==
    \E s \in Sessions :
        \/ SessionConnect(s)
        \/ SessionCreateTable(s)
        \/ SessionUpsertRow(s)
        \/ SessionEndLoop(s)
        \/ SessionCommit(s)
        \/ SessionFails(s)
        \/ SessionDeadlock(s)

\* Two processes running store_data against one database.
OverlapSpec == OverlapInit /\ [][NextOverlap]_vars

-----------------------------------------------------------------------------
(* Properties *)

\* The rows of relation rel in database d, as a set.
RowsOf(d, rel) == {d.rows[rel][n] : n \in DOMAIN d.rows[rel]}

\* The primary keys stored in relation rel of database d.
KeysOf(d, rel) == {r[PrimaryKey(rel)] : r \in RowsOf(d, rel)}

\* The rows store_data builds from the payload of resource res, in payload
\* order, up to the first item that raises.
RECURSIVE BuiltUpTo(_, _, _)
BuiltUpTo(res, payload, n) ==
    IF n = 0 THEN <<>>
    ELSE LET before == BuiltUpTo(res, payload, n - 1)
             p == RowParams(res, payload, LoopItems(res, payload).items[n])
         IN  IF Len(before) < n - 1 \/ p.exc # "none" THEN before
             ELSE Append(before, p.row)
PayloadRows(d, res) ==
    IF ~Present(d, res) \/ LoopItems(res, d[res]).exc # "none" THEN <<>>
    ELSE BuiltUpTo(res, d[res], Len(LoopItems(res, d[res]).items))

\* store_data has ended in the current run.
Stored == pc \in {"Finish", "Done"}

\* C1: when a schema-ensure statement, an upsert statement or the commit of a
\* run raises, store_data rolls back and the committed contents of all six
\* relations are what they were before the run.
C1_FailureRestoresStore ==
    (Stored /\ err.kind # "none") => (outcome = "RolledBack" /\ db = dbStart)

\* C1 witness: the war_major_orders upsert was rejected after the run had
\* written, inside the transaction, war_campaign rows the store did not hold.
C1_Witness ==
    /\ pc = "Done"
    /\ err = [kind |-> "IntegrityError", at |-> "major_orders"]
    /\ PayloadRows(data, "campaign") # <<>>
    /\ \A n \in DOMAIN PayloadRows(data, "campaign") :
           PayloadRows(data, "campaign")[n] \notin RowsOf(db, "war_campaign")
    /\ db = dbStart

\* C2: until its commit, a run leaves the contents other sessions see equal to
\* the contents before the run; from its commit on they are the contents the
\* whole transaction produced.
C2_NoPartialStateVisible ==
    /\ outcome # "Committed" => db = dbStart
    /\ outcome = "Committed" => db = tx

\* C2 witness: in the middle of the upserts the transaction holds rows of
\* several relations that no other session sees.
C2_Witness ==
    /\ pc = "Upsert"
    /\ i = 5
    /\ tx.rows["war_status"] # db.rows["war_status"]
    /\ tx.rows["war_campaign"] # db.rows["war_campaign"]
    /\ db = dbStart

\* The resources whose relation is written with ON CONFLICT ... DO UPDATE.
Overwriting == {"status", "info", "campaign", "major_orders", "planets"}

\* Whether row n is the last row of `rows` that carries its primary key.
LastOfKey(rows, col, n) == \A m \in DOMAIN rows : m > n => rows[m][col] # rows[n][col]

AllFetched == DOMAIN data = {Resources[n] : n \in 1..Len(Resources)}

\* C3: a run that fetches exactly the payloads the run before it fetched leaves
\* all six relations as that run left them (the run before not having been
\* failed by the database itself): no row is added, none changes.
C3_Idempotent ==
    (Stored /\ prev.ran /\ ~prev.fault /\ AllFetched /\ prev.data = data) => db = dbStart

\* C3 witness: the second of two runs with identical payloads has committed
\* over a store that holds rows of every relation.
C3_Witness ==
    /\ pc = "Done"
    /\ prev.ran /\ ~prev.fault /\ prev.data = data
    /\ outcome = "Committed"
    /\ \A rel \in Relations : db.rows[rel] # <<>>

\* C4: after a committed run, for each relation other than war_news, a stored
\* row whose key was in the store before the run and is in the run's payload
\* carries in every non-key column the value of the payload's row for that key.
C4_FullReplacement ==
    (Stored /\ outcome = "Committed") =>
        \A res \in Overwriting :
            LET rel  == TableOf(res)
                col  == PrimaryKey(rel)
                rows == PayloadRows(data, res)
            IN  \A n \in DOMAIN rows :
                    (rows[n][col] \in KeysOf(dbStart, rel) /\ LastOfKey(rows, col, n)) =>
                        /\ rows[n][col] \in KeysOf(db, rel)
                        /\ \A r \in RowsOf(db, rel) :
                               r[col] = rows[n][col] =>
                                   \A c \in DOMAIN r \ {col} : r[c] = rows[n][c]

\* C4 witness: planet 5 was stored with health 100 and a committed run whose
\* payload gives it health 80 has left it with health 80.
C4_Witness ==
    /\ pc = "Done"
    /\ outcome = "Committed"
    /\ \E r \in RowsOf(dbStart, "war_status") :
           r.planetIndex = Num("5") /\ r.health = Num("100")
    /\ \E r \in RowsOf(db, "war_status") :
           r.planetIndex = Num("5") /\ r.health = Num("80")

\* C5: no step of any run removes or changes a committed war_news row.
C5_NewsInsertOnly ==
    [][\A r \in RowsOf(db, "war_news") : r \in RowsOf(db', "war_news")]_vars

\* C5 witness: a committed run whose payload carries news 42 with another
\* message has left the stored message of news 42 as it was.
C5_Witness ==
    /\ pc = "Done"
    /\ outcome = "Committed"
    /\ \E n \in DOMAIN PayloadRows(data, "news") :
           \E r \in RowsOf(dbStart, "war_news") :
               /\ r.id = PayloadRows(data, "news")[n].id
               /\ r.message # PayloadRows(data, "news")[n].message
               /\ r \in RowsOf(db, "war_news")

\* C6: at every point of a run, committed or rolled back, a row the store held
\* before the run and whose key is not among the rows built from the run's
\* payload for its relation is still stored, unchanged.
C6_AbsentRowsUntouched ==
    \A res \in {Resources[n] : n \in 1..Len(Resources)} :
        LET rel  == TableOf(res)
            col  == PrimaryKey(rel)
            rows == PayloadRows(data, res)
        IN  \A r \in RowsOf(dbStart, rel) :
                (\A n \in DOMAIN rows : rows[n][col] # r[col]) => r \in RowsOf(db, rel)

\* C6 witness: a committed run whose status payload lacks planet 6 has changed
\* the store and left the stored row of planet 6 in place.
C6_Witness ==
    /\ pc = "Done"
    /\ outcome = "Committed"
    /\ PayloadRows(data, "status") # <<>>
    /\ db.rows["war_status"] # dbStart.rows["war_status"]
    /\ \E r \in RowsOf(dbStart, "war_status") :
           /\ r.planetIndex = Num("6")
           /\ \A n \in DOMAIN PayloadRows(data, "status") :
                  PayloadRows(data, "status")[n].planetIndex # Num("6")
           /\ r \in RowsOf(db, "war_status")

\* C7: in every state, committed or inside the transaction, no relation holds
\* two rows with the same primary key.
C7_PrimaryKeyUnique ==
    \A d \in {db, tx} : \A rel \in Relations :
        \A m, n \in DOMAIN d.rows[rel] :
            m # n => d.rows[rel][m][PrimaryKey(rel)] # d.rows[rel][n][PrimaryKey(rel)]

\* C7 witness: a committed run has re-ingested ids that were already stored,
\* in an overwriting relation and in war_news.
C7_Witness ==
    /\ pc = "Done"
    /\ outcome = "Committed"
    /\ \E n \in DOMAIN PayloadRows(data, "status") :
           PayloadRows(data, "status")[n].planetIndex \in KeysOf(dbStart, "war_status")
    /\ \E n \in DOMAIN PayloadRows(data, "news") :
           PayloadRows(data, "news")[n].id \in KeysOf(dbStart, "war_news")

\* The payloads the feeds serve for resource res.
WellFormed(res) == {feed[res] : feed \in Feeds}

\* Exactly the fetches of `failed` returned None and every other payload is
\* one a feed serves.
FetchesFailed(failed) ==
    /\ AllFetched
    /\ \A res \in DOMAIN data :
           IF res \in failed THEN data[res] = None ELSE data[res] \in WellFormed(res)

\* C8: when the fetch of one resource returns None, the other payloads are
\* well-formed and the database does not fail, the run commits; the relation
\* of the failed resource is as before the run and every row built from the
\* other payloads is stored (for war_news: its id is stored).
C8_PartialResourceResilience ==
    \A failed \in {Resources[n] : n \in 1..Len(Resources)} :
        (Stored /\ FetchesFailed({failed}) /\ err.kind # "OperationalError") =>
            /\ outcome = "Committed"
            /\ err = NoError
            /\ db.rows[TableOf(failed)] = dbStart.rows[TableOf(failed)]
            /\ \A res \in DOMAIN data \ {failed} :
                   /\ PayloadRows(data, res) # <<>>
                   /\ \A n \in DOMAIN PayloadRows(data, res) :
                          IF res \in Overwriting
                          THEN PayloadRows(data, res)[n] \in RowsOf(db, TableOf(res))
                          ELSE PayloadRows(data, res)[n].id \in KeysOf(db, "war_news")

\* C8 witness: the news fetch failed over a store that held news, and the run
\* committed changed rows of the other five relations.
C8_Witness ==
    /\ pc = "Done"
    /\ FetchesFailed({"news"})
    /\ outcome = "Committed"
    /\ dbStart.rows["war_news"] # <<>>
    /\ \A rel \in Relations \ {"war_news"} : db.rows[rel] # dbStart.rows[rel]

\* What the log of a run announces.
ReportsHardFailure == \E n \in DOMAIN log : log[n] = "Error storing data"
ReportsSuccess     == \E n \in DOMAIN log : log[n] = "Pipeline finished successfully."
ReportsFetchFailure ==
    \E n \in DOMAIN log : \E m \in DOMAIN Resources :
        log[n] = "Error fetching data from " \o Url(Resources[m])

\* C9: a run that has ended reports hard failure exactly when its transaction
\* was rolled back and success exactly when it committed (partial success when
\* a fetch failure was logged as well); a rolled-back run is never reported as
\* having finished successfully.
C9_ReportMatchesOutcome ==
    pc = "Done" =>
        /\ ReportsHardFailure <=> outcome = "RolledBack"
        /\ ReportsSuccess <=> outcome = "Committed"
        /\ (ReportsSuccess /\ ReportsFetchFailure) <=>
               (outcome = "Committed" /\ \E res \in DOMAIN data : data[res] = None)

\* C10: every run terminates: once main() has started fetching it eventually
\* returns or dies, whatever the endpoints do.
C10_EveryRunTerminates == (pc = "Fetching") ~> (pc \in {"Done", "Crashed"})

\* C13: when the payload of one resource has an unexpected shape, the other
\* payloads are well-formed and the database does not fail, the run commits
\* and every row built from the other payloads is stored.
C13_MalformedResourceDoesNotAbort ==
    \A bad \in DOMAIN Malformed :
        (/\ Stored
         /\ AllFetched
         /\ data[bad] = Malformed[bad]
         /\ \A res \in DOMAIN data \ {bad} : data[res] \in WellFormed(res)
         /\ err.kind # "OperationalError") =>
            /\ outcome = "Committed"
            /\ \A res \in DOMAIN data \ {bad} :
                   \A n \in DOMAIN PayloadRows(data, res) :
                       PayloadRows(data, res)[n][PrimaryKey(TableOf(res))]
                           \in KeysOf(db, TableOf(res))

\* The six relations of the schema.
SixRelations ==
    {"war_status", "war_info", "war_news", "war_campaign", "war_major_orders", "planets"}
SixResources == {"status", "info", "news", "campaign", "major_orders", "planets"}

\* C14: every step of a run respects the order Idle -> Fetching -> (connect)
\* -> schema-ensure -> upserts -> Committed | RolledBack: store_data starts
\* only when all six fetches have returned, the transaction starts from the
\* committed contents before schema-ensure, the first upsert comes after all
\* six CREATE TABLE statements, every write goes to the one open transaction,
\* commit comes only after the loop of the sixth resource, store_data returns
\* from an open transaction only by commit or rollback, and the outcome of an
\* ended transaction stays.
C14_RunOrder ==
    [][/\ (pc' = "Fetching" /\ pc # "Fetching") => pc \in {"Idle", "Done", "Crashed"}
       /\ (pc' = "Connect" /\ pc # "Connect") =>
              (pc = "Fetching" /\ DOMAIN data' = SixResources)
       /\ (pc' = "Schema" /\ pc # "Schema") => (pc = "Connect" /\ tx' = db)
       /\ (pc' = "Upsert" /\ pc # "Upsert") => (pc = "Schema" /\ tx'.tables = SixRelations)
       /\ (tx'.rows # tx.rows /\ outcome' = "None" /\ pc' # "Fetching") =>
              (pc = "Upsert" /\ tx.tables = SixRelations /\ db' = db)
       /\ (tx'.tables # tx.tables /\ outcome' = "None" /\ pc' # "Fetching") =>
              (pc = "Schema" /\ tx'.rows = tx.rows /\ db' = db)
       /\ (outcome' # outcome /\ outcome' # "None") =>
              (outcome = "None" /\ pc \in {"Schema", "Upsert"} /\ pc' = "Finish")
       /\ (outcome' = "Committed" /\ outcome # "Committed") =>
              (pc = "Upsert" /\ i > 6 /\ db' = tx)
       /\ (outcome' = "RolledBack" /\ outcome # "RolledBack") => db' = db
       /\ (outcome # "None" /\ outcome' # outcome) => pc' = "Fetching"
       /\ (pc' = "Finish" /\ pc # "Finish") => outcome' \in {"Committed", "RolledBack"}
      ]_vars

\* C14 witness: store_data has just committed a first run that went through
\* all six fetches, all six CREATE TABLE statements and all six loops.
C14_Witness ==
    /\ pc = "Finish"
    /\ runs = 1
    /\ outcome = "Committed"
    /\ DOMAIN data = SixResources
    /\ db.tables = SixRelations
    /\ \A rel \in SixRelations : db.rows[rel] # <<>>

\* The number of fetch_json calls for a resource that the log records.
FetchCount(res) ==
    Cardinality({n \in DOMAIN log :
        log[n] \in {"Successfully fetched data from " \o Url(res),
                    "Error fetching data from " \o Url(res)}})

\* Whether the fetch of resource number m has returned in the current run.
FetchReturned(m) ==
    \/ pc \in {"Fetching", "Blocked"} /\ m < i
    \/ pc \in {"Connect", "Schema", "Upsert", "Finish", "Done", "Crashed"}

\* C15: in every run each resource is fetched exactly once and in turn,
\* whatever the other fetches returned: a failed fetch puts None in data and
\* the fetches after it still take place; none is repeated.
C15_EachResourceFetchedOnce ==
    pc # "Idle" =>
        \A m \in DOMAIN Resources :
            IF FetchReturned(m)
            THEN /\ FetchCount(Resources[m]) = 1
                 /\ Resources[m] \in DOMAIN data
                 /\ data[Resources[m]] = None <=>
                        \E n \in DOMAIN log :
                            log[n] = "Error fetching data from " \o Url(Resources[m])
            ELSE /\ FetchCount(Resources[m]) = 0
                 /\ Resources[m] \notin DOMAIN data

\* C15 witness: the first fetch failed and the five fetches after it returned
\* their payloads.
C15_Witness ==
    /\ pc = "Connect"
    /\ data["status"] = None
    /\ \A res \in SixResources \ {"status"} : data[res] # None

\* C18: no exception leaves store_data: main() never dies in it.
C18_StoreDataNeverRaises == pc # "Crashed"

\* The nested objects of the items of each resource and the columns each is
\* flattened into.
SubObjects(res) ==
    CASE res = "info"         -> {"position"}
      [] res = "campaign"     -> {"biome"}
      [] res = "major_orders" -> {"setting", "reward"}
      [] res = "planets"      -> {"biome"}
      [] OTHER                -> {}
FlattenedColumns(sub) ==
    CASE sub = "position" -> {"position_x", "position_y"}
      [] sub = "biome"    -> {"biome_slug", "biome_description"}
      [] sub = "setting"  -> {"setting_type", "setting_overrideTitle", "setting_overrideBrief",
                              "setting_taskDescription", "setting_tasks", "setting_reward_type",
                              "setting_reward_id32", "setting_reward_amount", "setting_flags"}
      [] sub = "reward"   -> {"setting_reward_type", "setting_reward_id32",
                              "setting_reward_amount"}

\* The dict of an item of a loop (the planets loop runs through pairs).
ItemObject(res, item) == IF res = "planets" THEN item[2] ELSE item

\* Whether the item carries no nested object sub: the key is missing (for
\* reward: from the setting, or the setting itself is missing).
Lacks(res, item, sub) ==
    LET obj == ItemObject(res, item)
    IN  /\ obj.t = "obj"
        /\ IF sub = "reward"
           THEN \/ "setting" \notin DOMAIN obj.f
                \/ /\ obj.f["setting"].t = "obj"
                   /\ "reward" \notin DOMAIN obj.f["setting"].f
           ELSE sub \notin DOMAIN obj.f

\* Whether column c holds null: SQL NULL or, in the JSONB column
\* setting_tasks, the JSON value null that json.dumps(None) is stored as.
NullIn(c, v) == v = None \/ (c = "setting_tasks" /\ v = Str("null"))

\* The payloads of a resource in which nothing but nested objects and
\* optional lists is missing.
Sparse(res) == WellFormed(res) \cup {SparseFeed[res]}

C12_MissingFieldsStoredAsNull ==
    (Stored /\ outcome = "Committed") =>
        \A res \in {"info", "major_orders", "planets"} :
            \A n \in DOMAIN PayloadRows(data, res) :
                LET obj == ItemObject(res, LoopItems(res, data[res]).items[n])
                    row == PayloadRows(data, res)[n]
                IN  /\ (res = "info" /\ "waypoints" \notin DOMAIN obj.f) =>
                           row.waypoints = None
                    /\ (res = "planets" /\ "environmentals" \notin DOMAIN obj.f) =>
                           row.environmentals = None
                    /\ (res = "major_orders" /\
                        ("setting" \notin DOMAIN obj.f
                            \/ "tasks" \notin DOMAIN obj.f["setting"].f)) =>
                           NullIn("setting_tasks", row.setting_tasks)

\* C16: when one planetStatus item has no index, the other payloads are
\* well-formed and the database does not fail, the run commits, the rows of
\* the other items are stored and no row with a null key is.
C16_RowFailureRecoveredPerRow ==
    (/\ Stored
     /\ data["status"] = StatusWithMissingIndex
     /\ \A res \in DOMAIN data \ {"status"} : data[res] \in WellFormed(res)
     /\ err.kind # "OperationalError") =>
        /\ outcome = "Committed"
        /\ \E r \in RowsOf(db, "war_status") : r.planetIndex = Num("5") /\ r.health = Num("80")
        /\ \E r \in RowsOf(db, "war_status") : r.planetIndex = Num("6") /\ r.health = Num("60")
        /\ None \notin KeysOf(db, "war_status")

\* C19: a run whose payloads are well-formed but for one nested object that
\* is null commits (the database not failing), as it does when the key is
\* missing, and raises nothing.
C19_NullSubObjectLikeMissing ==
    (/\ Stored
     /\ \E feed \in NullSubObjectFeeds : \A res \in DOMAIN data : data[res] = feed[res]
     /\ err.kind # "OperationalError") =>
        /\ outcome = "Committed"
        /\ err = NoError

\* Whether row n is the first row of `rows` that carries its primary key.
FirstOfKey(rows, col, n) == \A m \in DOMAIN rows : m < n => rows[m][col] # rows[n][col]

\* The payloads of a resource that are well-formed or repeat a primary key.
Repeating(res) == WellFormed(res) \cup {DuplicateFeed[res]}

\* C20: a run whose payloads repeat primary keys commits (the database not
\* failing); after a committed run the stored row of a key is, in the five
\* overwriting relations, the last row the payload gives for it and, in
\* war_news, the row stored before the run or else the first row the payload
\* gives for it.
C20_PayloadOrderDecides ==
    /\ (/\ Stored
        /\ \A res \in DOMAIN data : data[res] \in Repeating(res)
        /\ err.kind # "OperationalError") => outcome = "Committed"
    /\ (Stored /\ outcome = "Committed") =>
        \A res \in DOMAIN data :
            LET rel  == TableOf(res)
                col  == PrimaryKey(rel)
                rows == PayloadRows(data, res)
            IN  \A n \in DOMAIN rows :
                    /\ rows[n][col] \in KeysOf(db, rel)
                    /\ \A r \in RowsOf(db, rel) :
                           r[col] = rows[n][col] =>
                               IF res \in Overwriting
                               THEN LastOfKey(rows, col, n) => r = rows[n]
                               ELSE IF rows[n][col] \in KeysOf(dbStart, rel)
                                    THEN r \in RowsOf(dbStart, rel)
                                    ELSE FirstOfKey(rows, col, n) => r = rows[n]

\* C20 witness: a run has committed the feed that repeats keys over a store
\* that held news 42: planet 5 is stored with the health of its second status
\* item, news 42 as before the run and news 44 with its first message.
C20_Witness ==
    /\ pc = "Done"
    /\ outcome = "Committed"
    /\ \A res \in DOMAIN DuplicateFeed : data[res] = DuplicateFeed[res]
    /\ \E r \in RowsOf(db, "war_status") : r.planetIndex = Num("5") /\ r.health = Num("70")
    /\ \E r \in RowsOf(db, "planets") : r.planetIndex = Num("5") /\ r.name = Str("Hellmire III")
    /\ \E r \in RowsOf(dbStart, "war_news") : r.id = Num("42") /\ r \in RowsOf(db, "war_news")
    /\ \E r \in RowsOf(db, "war_news") : r.id = Num("44") /\ r.message = Str("m4")

\* The sessions whose commit is logged after the commit of session s.
CommittedAfter(s) ==
    {o \in Sessions : \E m, n \in DOMAIN log :
        /\ m < n
        /\ log[m] = [proc |-> s, line |-> "All data stored successfully."]
        /\ log[n] = [proc |-> o, line |-> "All data stored successfully."]}

\* The row session s writes last for the key of rows[n], if row is such a row.
WrittenBy(s, res, row) ==
    \E n \in DOMAIN PayloadRows(data[s], res) :
        /\ LastOfKey(PayloadRows(data[s], res), PrimaryKey(TableOf(res)), n)
        /\ PayloadRows(data[s], res)[n] = row

\* C17: with two overlapping runs, every key that a committed run wrote to an
\* overwriting relation is stored, and its stored row is the row written by
\* that run or by a run that committed after it: the last commit wins and no
\* committed run is left applied in part.
C17_LastCommittedWins ==
    \A s \in Sessions :
        outcome[s] = "Committed" =>
            \A res \in Overwriting :
                LET rel  == TableOf(res)
                    col  == PrimaryKey(rel)
                    rows == PayloadRows(data[s], res)
                IN  \A n \in DOMAIN rows :
                        /\ rows[n][col] \in KeysOf(db, rel)
                        /\ \A r \in RowsOf(db, rel) :
                               r[col] = rows[n][col] =>
                                   \/ WrittenBy(s, res, r)
                                   \/ \E o \in CommittedAfter(s) : WrittenBy(o, res, r)

\* C17 witness: both runs have committed different rows for planet 5; run 2
\* opened its transaction before run 1 committed and committed after it, and
\* the stored row of planet 5 is the one run 2 wrote.
C17_Witness ==
    /\ \A s \in Sessions : pc[s] = "Done" /\ outcome[s] = "Committed"
    /\ data[1] = Feed1 /\ data[2] = Feed2
    /\ dbStart[2] = SchemaOnly
    /\ 2 \in CommittedAfter(1)
    /\ \E r \in RowsOf(db, "war_status") : r.planetIndex = Num("5") /\ r.health = Num("80")
    /\ \E r \in RowsOf(db, "war_status") : r.planetIndex = Num("6") /\ r.health = Num("9000")

====
